---- MODULE Spec2Model ----
(***************************************************************************)
(* Model of the deep-research pipeline of the literature-review assistant  *)
(* (server/services/deep-research-agent.ts, both revisions found in the    *)
(* source tree), of the citation normaliser (server/services/perplexity.ts)*)
(* and of the client-side citation deduplication and renumbering           *)
(* (client/src/components/research/OutputSection.tsx).                     *)
(*                                                                         *)
(* A document is a sequence of lines.  A line is a record [kind, n]:       *)
(*   kind = "para"  a paragraph; n > 0 means it carries the marker [n],    *)
(*                  n = 0 means it carries no marker;                      *)
(*   kind = "h1"    a line matching /^#\s+(.+?)(?:\n|$)/m;                 *)
(*   kind = "refs"  a line matching the "References" heading pattern.      *)
(***************************************************************************)
EXTENDS Integers, Sequences, FiniteSets, TLC

\* ------------------------------------------------------------------ bounds
MaxLines == 2
MaxRawLines == 1
MaxMarker == 2
MaxUrls == 2

\* ------------------------------------------------------- input universes
Topics == {"climate change adaptation", "organoids"}

Urls == {"https://a.org/x", "https://b.org/y"}

SeqsUpTo(S, n) == UNION {[1..k -> S] : k \in 0..n}

UrlLists == SeqsUpTo(Urls, MaxUrls)

ParaLines == [kind : {"para"}, n : 0..MaxMarker]

AnyLines == ParaLines \cup {[kind |-> "h1", n |-> 0], [kind |-> "refs", n |-> 0]}

\* a reasoning trace "<think> ... </think>" with non-blank text
ThinkLine == [kind |-> "think", n |-> 0]

\* prose returned by the search service: paragraphs with or without markers,
\* and, from the deep-research models, a reasoning trace
RawContents == SeqsUpTo(ParaLines \cup {ThinkLine}, MaxRawLines)

\* text returned by the chat model when asked to structure the content
ModelTexts == SeqsUpTo(AnyLines, MaxLines)

\* text returned by the chat model when asked for an optimized query
QueryTexts == {"optimized query"}

\* the two revisions of deep-research-agent.ts present in the source tree
Revisions == {"agent", "part_009"}

\* causes with which makePerplexitySonarQuery rejects
ResearchFailures ==
  { "PERPLEXITY_API_KEY environment variable is not set",
    "Perplexity API error: upstream",
    "Invalid response from Perplexity API",
    "timeout of 600000ms exceeded" }

\* ---------------------------------------------------------------- helpers
Range(s) == {s[i] : i \in DOMAIN s}

Markers(content) == {content[i].n : i \in {j \in DOMAIN content :
                                       content[j].kind = "para" /\ content[j].n > 0}}

\* index of the first line of the given kind, 0 when there is none
FirstOfKind(text, kind) ==
  IF \E i \in DOMAIN text : text[i].kind = kind
  THEN CHOOSE i \in DOMAIN text :
         /\ text[i].kind = kind
         /\ \A j \in 1..(i-1) : text[j].kind # kind
  ELSE 0

RemoveAt(s, i) == [j \in 1..(Len(s)-1) |-> IF j < i THEN s[j] ELSE s[j+1]]

\* ------------------------------------------------- citation normaliser
\* processCitations, empty input: the single sentinel citation
SentinelCitation ==
  [authors |-> "No citations available",
   text |-> <<"The source information for this research could not be retrieved", ".">>,
   url |-> ""]

\* domain of the url with the top-level suffix removed, capitalised
\* (formattedDomain); the urls of the model have one-label domains
FormattedDomain(url) ==
  IF url = "https://a.org/x" THEN "A"
  ELSE IF url = "https://b.org/y" THEN "B"
  ELSE "Unknown Source"

\* the title processCitations infers in its last branch: with no path word
\* longer than 3 characters it is variations[url.length % 4] (the two urls
\* are 15 characters long, the empty string 0), and a string without "/" is
\* its own path word
InferredTitle(url) ==
  IF url \in Urls THEN "Innovative applications of scientific research"
  ELSE IF url = "" THEN "Research developments in scientific research"
  ELSE "Not a url studies with scientific research"

\* the citation processCitations builds for one url (generic-source branch);
\* the text is the sequence of its pieces "(year). title. Retrieved from url"
CitationOf(url) ==
  [authors |-> FormattedDomain(url) \o " Research Team",
   text |-> <<"(", "year", ")", ".", " ", InferredTitle(url), ".", " ",
              "Retrieved from ", url>>,
   url |-> url]

\* variant: the empty list is mapped like any other
processCitationsWithoutSentinel(citationUrls) ==
  [i \in DOMAIN citationUrls |-> CitationOf(citationUrls[i])]

processCitations(citationUrls) ==
  IF Len(citationUrls) = 0
  THEN <<SentinelCitation>>
  ELSE [i \in DOMAIN citationUrls |-> CitationOf(citationUrls[i])]

\* --------------------------------------------------- progress broadcast
\* broadcastProgress(data): one publication, appended to the run's record
broadcastProgress(evs, e) == Append(evs, e)

\* --------------------------------------------------- chat-model replies
\* response.content[0]: a text block or a block of another type
QueryReplies == [type : {"text"}, text : QueryTexts] \cup {[type |-> "other", text |-> ""]}

\* createOptimizedQuery: the text of a text block, String(block) otherwise,
\* the user's topic when the call rejects
OptimizedQueryOnReply(reply) ==
  IF reply.type = "text" THEN reply.text ELSE "[object Object]"

\* variant: the fallback forgets the user's topic
OptimizedQueryOnFailureEmpty(userTopic) == ""

OptimizedQueryOnFailure(userTopic) == userTopic

OutputReplies == [type : {"text"}, text : ModelTexts]
                   \cup {[type |-> "other", text |-> <<>>]}

\* fullText of createStructuredOutput
FullText(reply) ==
  IF reply.type = "text" THEN reply.text ELSE <<[kind |-> "para", n |-> 0]>>

\* createStructuredOutput, parsing of the reply (title, content, citations)
StructuredTitle(fullText, originalTopic) ==
  IF FirstOfKind(fullText, "h1") # 0
  THEN <<"heading text">>
  ELSE <<"Research on ", originalTopic>>

WithoutTitle(fullText) ==
  IF FirstOfKind(fullText, "h1") # 0
  THEN RemoveAt(fullText, FirstOfKind(fullText, "h1"))
  ELSE fullText

\* the "References" section is cut off in deep-research-agent.ts only
WithoutReferences(rev, content) ==
  IF rev = "agent" /\ FirstOfKind(content, "refs") # 0
  THEN SubSeq(content, 1, FirstOfKind(content, "refs") - 1)
  ELSE content

StructuredOnReply(rev, reply, originalTopic, citations) ==
  [title |-> StructuredTitle(FullText(reply), originalTopic),
   content |-> WithoutReferences(rev, WithoutTitle(FullText(reply))),
   citations |-> citations]

\* variant: the fallback titles the summary as generateResearchSummary does
StructuredOnFailureUntitled(originalTopic, perplexityContent, citations) ==
  [title |-> <<"Literature Review">>,
   content |-> perplexityContent,
   citations |-> citations]

\* createStructuredOutput, catch branch
StructuredOnFailure(originalTopic, perplexityContent, citations) ==
  [title |-> <<"Research on ", originalTopic>>,
   content |-> perplexityContent,
   citations |-> citations]

\* ------------------------------------ generateResearchSummary (content)
\* content of the summary generateResearchSummary builds from the raw content:
\* when it includes "<think>" and the first trace is not blank, the content
\* is replaced by a preview block quoting the trace (its first 2000
\* characters) followed by a notice; the prose is dropped
generateResearchSummaryContent(content) ==
  IF FirstOfKind(content, "think") # 0
  THEN << [kind |-> "preview", n |-> 0],
          content[FirstOfKind(content, "think")],
          [kind |-> "notice", n |-> 0] >>
  ELSE content

\* ------------------------------------------------------ progress events
Ev(stage, progress) == [stage |-> stage, progress |-> progress]

\* ------------------------------------------------------------- the state
VARIABLES
  revision,        \* which revision of deep-research-agent.ts runs
  topic,           \* argument of processDeepResearch
  pc,              \* position of the run
  events,          \* broadcastProgress calls made by the run, in order
  calls,           \* external calls started by the run, in order
  inflight,        \* external calls started and not yet returned
  optimizedQuery,  \* result of createOptimizedQuery
  queryFailed,     \* the chat call of createOptimizedQuery rejected
  researchOutcome, \* how the search call ended: status and rejection cause
  perplexityResults,   \* {content, citations} returned by the search call
  perplexityCitations, \* list handed to createStructuredOutput
  formatFailed,    \* the chat call of createStructuredOutput rejected
  result,          \* the ResearchSummary returned, when pc = "returned"
  thrown,          \* the Error thrown, when pc = "thrown"
  isProcessing,    \* Home: a submission is being processed
  researchSummary, \* Home/OutputSection: the researchSummary state and prop
  localSummary,    \* OutputSection: the localSummary state
  hub,             \* what global.broadcastResearchProgress holds
  clients,         \* routes.ts: the Set of WebSocket connections
  readyState,      \* readyState of each WebSocket connection
  sent,            \* messages handed to ws.send, per connection, in order
  runPc,           \* position of each request of POST /api/research/agentic-deep
  fate,            \* what the external replies make each run do
  emitted,         \* number of broadcastProgress calls each run has made
  callsMade,       \* external calls each run has started, in order
  researchSummaries,   \* MemStorage.researchSummaries, id -> stored record
  currentSummaryId,    \* MemStorage.currentSummaryId
  response,        \* HTTP response of each request
  request,         \* req.body of each request
  searchDomains,   \* options.searchDomains the caller of the run supplied
  citationArg,     \* processCitations on its own: the argument of the call
  normalized,      \* processCitations on its own: the outcome of the call
  originalText,    \* enhanceTextWithCitations: the text parameter
  fragments,       \* enhanceTextWithCitations: the claims identified
  enhPc,           \* enhanceTextWithCitations: where the call stands
  enhancedText,    \* enhanceTextWithCitations: the text with markers
  allCitations,    \* enhanceTextWithCitations: the citations collected
  citationCount,   \* enhanceTextWithCitations: the last number handed out
  citationIndicesOf, \* citationIndices of each claim handled, in order
  formRevision,    \* which revision of InputSection is mounted
  activeTab,       \* InputSection: the activeTab state
  researchMode,    \* InputSection.tsx: the researchMode state
  formData,        \* the argument of the handleSubmit call under way
  submitPc,        \* where the handleSubmit call stands
  completions      \* onGenerationComplete calls of that handleSubmit call

runVars == <<revision, topic, pc, events, calls, inflight, optimizedQuery,
             queryFailed, researchOutcome, perplexityResults, perplexityCitations,
             formatFailed, result, thrown, searchDomains>>

viewVars == <<isProcessing, researchSummary, localSummary>>

serverVars == <<hub, clients, readyState, sent, runPc, fate, emitted, callsMade,
                researchSummaries, currentSummaryId, response, request>>

\* state of the functions exercised on their own
normalizerVars == <<citationArg, normalized>>

enhancerVars == <<originalText, fragments, enhPc, enhancedText, allCitations,
                  citationCount, citationIndicesOf>>

submitVars == <<formRevision, activeTab, researchMode, formData, submitPc, completions>>

unitVars == <<normalizerVars, enhancerVars, submitVars>>

vars == <<runVars, viewVars, serverVars, unitVars>>

\* processCitations has not been called
NotNormalized == [done |-> FALSE, threw |-> FALSE, citations |-> <<>>]

NormalizerIdle ==
  /\ citationArg = [absent |-> TRUE, urls |-> <<>>]
  /\ normalized = NotNormalized

\* enhanceTextWithCitations has not been called
EnhancerIdle ==
  /\ originalText = <<>>
  /\ fragments = <<>>
  /\ enhPc = "idle"
  /\ enhancedText = <<>>
  /\ allCitations = <<>>
  /\ citationCount = 0
  /\ citationIndicesOf = <<>>

\* InputSection as mounted: useState("text"), useState("standard"), no call
FormIdle ==
  /\ formRevision = "InputSection.tsx"
  /\ activeTab = "text"
  /\ researchMode = "standard"
  /\ formData = [type |-> "none"]
  /\ submitPc = "idle"
  /\ completions = 0

UnitsIdle == NormalizerIdle /\ EnhancerIdle /\ FormIdle

\* useState(researchSummary) with the prop still null
NullSummary == [null |-> TRUE, title |-> "", content |-> <<>>, citations |-> <<>>]

NoResults == [content |-> <<>>, citations |-> <<>>]
NoSummary == [title |-> <<>>, content |-> <<>>, citations |-> <<>>, modelUsed |-> ""]
NoError == <<>>

\* ----------------------------------------------- the server (bounds, state)
\* req.body before a request has arrived
NoBody == [hasText |-> FALSE, text |-> "", arrived |-> FALSE]

MaxConns == 2
MaxRuns == 2

Conns == 1..MaxConns

RunIds == 1..MaxRuns

\* global.broadcastResearchProgress: undefined, the function registerRoutes
\* installs, or a function that raises
Hubs == {"none", "routes", "raising"}

\* the server's state when registerRoutes and new MemStorage() have run
ServerConstructed ==
  /\ clients = {}
  /\ readyState = [c \in Conns |-> "NONE"]
  /\ sent = [c \in Conns |-> <<>>]
  /\ runPc = [r \in RunIds |-> "idle"]
  /\ fate = [r \in RunIds |-> "none"]
  /\ emitted = [r \in RunIds |-> 0]
  /\ callsMade = [r \in RunIds |-> <<>>]
  /\ researchSummaries = <<>>
  /\ currentSummaryId = 1
  /\ response = [r \in RunIds |-> [status |-> 0, body |-> <<>>]]
  /\ request = [r \in RunIds |-> NoBody]

Init ==
  /\ hub = "routes"
  /\ ServerConstructed
  /\ revision \in Revisions
  /\ topic \in Topics
  /\ pc = "idle"
  /\ events = <<>>
  /\ calls = <<>>
  /\ inflight = {}
  /\ optimizedQuery = ""
  /\ queryFailed = FALSE
  /\ researchOutcome = [status |-> "none", cause |-> ""]
  /\ perplexityResults = NoResults
  /\ perplexityCitations = <<>>
  /\ formatFailed = FALSE
  /\ result = NoSummary
  /\ thrown = NoError
  /\ searchDomains = <<>>
  /\ isProcessing = FALSE
  /\ researchSummary = NullSummary
  /\ localSummary = NullSummary
  /\ UnitsIdle

\* -------------------------------------------------------- external calls
Call(svc, query, content, citations) ==
  [svc |-> svc, query |-> query, content |-> content, citations |-> citations,
   domains |-> <<>>]

\* search_domain_filter in the body makePerplexitySonarQuery posts: a literal
\* list, whatever the options hold
HardCodedDomainFilter == <<"ncbi.nlm.nih.gov", "scholar.google.com", "sciencedirect.com">>

\* the searchDomains a caller can pass to performAgenticDeepResearch
DomainLists == {<<>>, <<"arxiv.org">>, HardCodedDomainFilter}

NoOptions == [searchDomains |-> <<>>]

\* performAgenticDeepResearch: searchDomains enters the payload when non-empty
Payload(text, options) ==
  [text |-> text,
   searchDomains |-> IF Len(options.searchDomains) > 0 THEN options.searchDomains ELSE <<>>]

\* the options the route hands to processDeepResearch: it reads req.body.text
\* and calls processDeepResearch(text)
RouteOptions(body) == NoOptions

\* the options processDeepResearch hands to makePerplexitySonarQuery
PerplexityOptions(rev, options) ==
  IF rev = "part_009" /\ Len(options.searchDomains) > 0
  THEN [searchDomains |-> options.searchDomains]
  ELSE NoOptions

\* the allow-list of the request makePerplexitySonarQuery posts
search_domain_filter(options) == HardCodedDomainFilter

\* the search call of a run whose caller supplied searchDomains
SonarCall(query) ==
  [Call("perplexity", query, <<>>, <<>>) EXCEPT
     !.domains = search_domain_filter(
                   PerplexityOptions(revision,
                     RouteOptions(Payload(topic, [searchDomains |-> searchDomains]))))]

\* ------------------------------------------- citation step of the pipeline
\* deep-research-agent.ts imports maximizeDiverseReferences from ./perplexity,
\* which exports no such name (perplexity.ts notes its removal): the binding
\* is undefined and every call of it raises a TypeError
maximizeDiverseReferences(citations) ==
  [threw |-> TRUE,
   cause |-> "maximizeDiverseReferences is not a function",
   citations |-> <<>>]

\* the statements between the search call and the "research_complete" event
CitationStep(rev, citationUrls) ==
  IF rev = "agent"
  THEN \* both branches normalise a url list and pass it on
       maximizeDiverseReferences(processCitations(citationUrls))
  ELSE [threw |-> FALSE, cause |-> "",
        citations |-> IF Len(citationUrls) > 0
                      THEN processCitations(citationUrls)
                      ELSE <<>>]

\* variant: the run starts without announcing itself
StartWithoutAnnouncement ==
  /\ pc = "idle"
  /\ events' = broadcastProgress(events, Ev("query_generation", 10))
  /\ calls' = Append(calls, Call("claude_query", topic, <<>>, <<>>))
  /\ inflight' = inflight \cup {"claude_query"}
  /\ pc' = "awaitQuery"
  /\ \E domains \in DomainLists : searchDomains' = domains
  /\ UNCHANGED <<revision, topic, optimizedQuery, queryFailed, researchOutcome,
                 perplexityResults, perplexityCitations, formatFailed, result, thrown,
                 viewVars, serverVars, unitVars>>

\* variant: the "research" event reports less progress than "query_complete"
AfterQueryRegressing(query, failed) ==
  /\ optimizedQuery' = query
  /\ queryFailed' = failed
  /\ events' = broadcastProgress(broadcastProgress(events, Ev("query_complete", 30)),
                                 Ev("research", 20))
  /\ calls' = Append(calls, SonarCall(query))
  /\ inflight' = (inflight \ {"claude_query"}) \cup {"perplexity"}
  /\ pc' = "awaitResearch"
  /\ UNCHANGED <<revision, topic, searchDomains, researchOutcome, perplexityResults,
                 perplexityCitations, formatFailed, result, thrown,
                 viewVars, serverVars, unitVars>>

\* variant: the catch block rethrows without publishing the error event
CatchSilently(cause) ==
  /\ events' = events
  /\ thrown' = <<"Deep research agent failure: ", cause>>
  /\ pc' = "thrown"

\* variant: the catch block neither reports nor rethrows, the run stays
\* where it was
CatchWithoutThrowing(cause) ==
  /\ events' = events
  /\ thrown' = thrown
  /\ pc' = pc

\* variant: a rejected search call is issued again
ResearchFailsAndRetries ==
  /\ pc = "awaitResearch"
  /\ \E cause \in ResearchFailures :
       researchOutcome' = [status |-> "failed", cause |-> cause]
  /\ calls' = Append(calls, SonarCall(optimizedQuery))
  /\ UNCHANGED <<revision, topic, searchDomains, pc, events, inflight, optimizedQuery, queryFailed,
                 perplexityResults, perplexityCitations, formatFailed, result, thrown,
                 viewVars, serverVars, unitVars>>

\* variant: the formatting call is started without awaiting the search call
ResearchSucceedsLeavingCallOpen ==
  /\ pc = "awaitResearch"
  /\ \E content \in RawContents, citationUrls \in UrlLists :
       /\ researchOutcome' = [status |-> "ok", cause |-> ""]
       /\ perplexityResults' = [content |-> content, citations |-> citationUrls]
       /\ perplexityCitations' = processCitations(citationUrls)
       /\ events' = broadcastProgress(
                      broadcastProgress(events, Ev("research_complete", 70)),
                      Ev("formatting", 80))
       /\ calls' = Append(calls, Call("claude_format", optimizedQuery, content,
                                      processCitations(citationUrls)))
       /\ inflight' = inflight \cup {"claude_format"}
       /\ pc' = "awaitFormat"
  /\ UNCHANGED <<revision, topic, searchDomains, optimizedQuery, queryFailed, formatFailed,
                 result, thrown,
                 viewVars, serverVars, unitVars>>

\* ------------------------------------------------------------ the pipeline
\* processDeepResearch up to the await of createOptimizedQuery's chat call
Start ==
  /\ pc = "idle"
  /\ events' = broadcastProgress(broadcastProgress(events, Ev("starting", 0)),
                                 Ev("query_generation", 10))
  /\ calls' = Append(calls, Call("claude_query", topic, <<>>, <<>>))
  /\ inflight' = inflight \cup {"claude_query"}
  /\ pc' = "awaitQuery"
  /\ \E domains \in DomainLists : searchDomains' = domains
  /\ UNCHANGED <<revision, topic, optimizedQuery, queryFailed, researchOutcome,
                 perplexityResults, perplexityCitations, formatFailed, result, thrown,
                 viewVars, serverVars, unitVars>>

\* from the resolution of createOptimizedQuery to the await of the search call
AfterQuery(query, failed) ==
  /\ optimizedQuery' = query
  /\ queryFailed' = failed
  /\ events' = broadcastProgress(broadcastProgress(events, Ev("query_complete", 30)),
                                 Ev("research", 40))
  /\ calls' = Append(calls, SonarCall(query))
  /\ inflight' = (inflight \ {"claude_query"}) \cup {"perplexity"}
  /\ pc' = "awaitResearch"
  /\ UNCHANGED <<revision, topic, searchDomains, researchOutcome, perplexityResults,
                 perplexityCitations, formatFailed, result, thrown,
                 viewVars, serverVars, unitVars>>

QuerySucceeds ==
  /\ pc = "awaitQuery"
  /\ \E reply \in QueryReplies : AfterQuery(OptimizedQueryOnReply(reply), FALSE)

QueryFails ==
  /\ pc = "awaitQuery"
  /\ AfterQuery(OptimizedQueryOnFailure(topic), TRUE)

\* the catch block of processDeepResearch
Catch(cause) ==
  /\ events' = broadcastProgress(events, Ev("error", -1))
  /\ thrown' = <<"Deep research agent failure: ", cause>>
  /\ pc' = "thrown"

\* the search call resolved with {content, citations}
ResearchSucceeds ==
  /\ pc = "awaitResearch"
  /\ \E content \in RawContents, citationUrls \in UrlLists :
       LET step == CitationStep(revision, citationUrls) IN
       /\ researchOutcome' = [status |-> "ok", cause |-> ""]
       /\ perplexityResults' = [content |-> content, citations |-> citationUrls]
       /\ IF step.threw
          THEN /\ Catch(step.cause)
               /\ inflight' = inflight \ {"perplexity"}
               /\ UNCHANGED <<calls, perplexityCitations>>
          ELSE /\ perplexityCitations' = step.citations
               /\ events' = broadcastProgress(
                              broadcastProgress(events, Ev("research_complete", 70)),
                              Ev("formatting", 80))
               /\ calls' = Append(calls, Call("claude_format", optimizedQuery,
                                              content, step.citations))
               /\ inflight' = (inflight \ {"perplexity"}) \cup {"claude_format"}
               /\ pc' = "awaitFormat"
               /\ UNCHANGED thrown
  /\ UNCHANGED <<revision, topic, searchDomains, optimizedQuery, queryFailed, formatFailed, result,
                 viewVars, serverVars, unitVars>>

\* the search call rejected: makePerplexitySonarQuery rethrows, no retry
ResearchFails ==
  /\ pc = "awaitResearch"
  /\ \E cause \in ResearchFailures :
       /\ researchOutcome' = [status |-> "failed", cause |-> cause]
       /\ Catch(cause)
  /\ inflight' = inflight \ {"perplexity"}
  /\ UNCHANGED <<revision, topic, searchDomains, calls, optimizedQuery, queryFailed,
                 perplexityResults, perplexityCitations, formatFailed, result,
                 viewVars, serverVars, unitVars>>

\* from the resolution of createStructuredOutput to the return
AfterFormat(structuredOutput, failed) ==
  /\ formatFailed' = failed
  /\ events' = broadcastProgress(events, Ev("complete", 100))
  /\ result' = [title |-> structuredOutput.title,
                content |-> structuredOutput.content,
                citations |-> structuredOutput.citations,
                modelUsed |-> "agentic-flow-claude-perplexity"]
  /\ inflight' = inflight \ {"claude_format"}
  /\ pc' = "returned"
  /\ UNCHANGED <<revision, topic, searchDomains, calls, optimizedQuery, queryFailed,
                 researchOutcome, perplexityResults, perplexityCitations, thrown,
                 viewVars, serverVars, unitVars>>

FormatSucceeds ==
  /\ pc = "awaitFormat"
  /\ \E reply \in OutputReplies :
       AfterFormat(StructuredOnReply(revision, reply, topic, perplexityCitations), FALSE)

FormatFails ==
  /\ pc = "awaitFormat"
  /\ AfterFormat(StructuredOnFailure(topic, perplexityResults.content,
                                     perplexityCitations), TRUE)

Next ==
  \/ Start
  \/ QuerySucceeds
  \/ QueryFails
  \/ ResearchSucceeds
  \/ ResearchFails
  \/ FormatSucceeds
  \/ FormatFails

Spec == Init /\ [][Next]_vars

\* every external call of the run eventually resolves or rejects
FairSpec == Spec /\ WF_vars(Next)

\* =================================================== OutputSection (client)
\* Strings whose characters matter are sequences of one-character strings.
MaxCitations == 3
MaxDocLines == 2

IsSpace(c) == c = " "

\* String.prototype.toLowerCase on the letters the model uses
LowerChar(c) ==
  CASE c = "A" -> "a" [] c = "B" -> "b" [] c = "T" -> "t" [] c = "U" -> "u"
    [] c = "X" -> "x" [] c = "Y" -> "y" [] c = "D" -> "d" [] OTHER -> c

toLowerCase(str) == [i \in DOMAIN str |-> LowerChar(str[i])]

\* String.prototype.trim
trim(str) ==
  IF \A i \in DOMAIN str : IsSpace(str[i])
  THEN <<>>
  ELSE LET first == CHOOSE i \in DOMAIN str :
                      ~IsSpace(str[i]) /\ \A j \in 1..(i-1) : IsSpace(str[j])
           last == CHOOSE i \in DOMAIN str :
                     ~IsSpace(str[i]) /\ \A j \in (i+1)..Len(str) : IsSpace(str[j])
       IN SubSeq(str, first, last)

\* str.match(/\)\.\s([^\.]+)/): the leftmost ")." followed by white space and
\* at least one character other than "."; the group is the longest run of
\* characters other than "." that follows
TitlePatternAt(str, i) ==
  /\ i + 3 <= Len(str)
  /\ str[i] = ")"
  /\ str[i+1] = "."
  /\ IsSpace(str[i+2])
  /\ str[i+3] # "."

TitleMatch(str) ==
  IF \E i \in DOMAIN str : TitlePatternAt(str, i)
  THEN LET at == CHOOSE i \in DOMAIN str :
                   TitlePatternAt(str, i) /\ \A j \in 1..(i-1) : ~TitlePatternAt(str, j)
           end == CHOOSE e \in (at+3)..Len(str) :
                    /\ \A k \in (at+3)..e : str[k] # "."
                    /\ (e = Len(str) \/ str[e+1] = ".")
       IN [matched |-> TRUE, group |-> SubSeq(str, at + 3, end)]
  ELSE [matched |-> FALSE, group |-> <<>>]

\* decimal digits of a small index
Digit(n) == <<"0", "1", "2", "3", "4", "5", "6", "7", "8", "9">>[n + 1]

\* the template literals `citation-${oldIndex}` and `url-${oldIndex}`
CitationKey(oldIndex) == <<"c", "i", "t", "a", "t", "i", "o", "n", "-", Digit(oldIndex)>>

UrlKey(oldIndex) == <<"u", "r", "l", "-", Digit(oldIndex)>>

\* title and url under which getUniqueReferences (and the effect's outer
\* loop) files the citation at 0-based position oldIndex
TitleOf(citation, oldIndex) ==
  IF TitleMatch(citation.text).matched
  THEN toLowerCase(trim(TitleMatch(citation.text).group))
  ELSE CitationKey(oldIndex)

UrlOf(citation, oldIndex) ==
  IF citation.url # <<>> THEN toLowerCase(citation.url) ELSE UrlKey(oldIndex)

\* getUniqueReferences: the citations kept, in order.  The index map the
\* function fills while it runs is local and dropped on return.
RECURSIVE UniqueFrom(_, _, _, _, _)
UniqueFrom(citations, k, uniqueCitations, seenTitles, seenUrls) ==
  IF k > Len(citations)
  THEN uniqueCitations
  ELSE LET title == TitleOf(citations[k], k - 1)
           url == UrlOf(citations[k], k - 1)
       IN IF title \in seenTitles \/ url \in seenUrls
          THEN UniqueFrom(citations, k + 1, uniqueCitations, seenTitles, seenUrls)
          ELSE UniqueFrom(citations, k + 1, Append(uniqueCitations, citations[k]),
                          seenTitles \cup {title}, seenUrls \cup {url})

getUniqueReferences(citations) ==
  IF Len(citations) <= 1
  THEN citations
  ELSE UniqueFrom(citations, 1, <<>>, {}, {})

\* String.prototype.includes
Includes(str, part) ==
  \E k \in 0..(Len(str) - Len(part)) : SubSeq(str, k + 1, k + Len(part)) = part

PrefixLength == 20

Min(a, b) == IF a < b THEN a ELSE b

\* the effect's test "citation at oldIdx is the unique citation"
SameReference(citation, oldIdx, uniqueCitation) ==
  LET uniqueTitle == IF TitleMatch(uniqueCitation.text).matched
                     THEN toLowerCase(trim(TitleMatch(uniqueCitation.text).group))
                     ELSE <<>>
      uniqueUrl == IF uniqueCitation.url # <<>>
                   THEN toLowerCase(uniqueCitation.url)
                   ELSE <<>>
  IN \/ TitleOf(citation, oldIdx) = uniqueTitle
     \/ UrlOf(citation, oldIdx) = uniqueUrl
     \/ /\ citation.authors = uniqueCitation.authors
        /\ citation.text # <<>>
        /\ uniqueCitation.text # <<>>
        /\ Includes(citation.text,
                    SubSeq(uniqueCitation.text, 1,
                           Min(PrefixLength, Len(uniqueCitation.text))))

\* the effect's citationMap: entry old (1-based) holds the new number; the
\* entries are inserted, and later iterated, in increasing order of old
CitationMap(originalCitations, uniqueCitations) ==
  [old \in 1..Len(originalCitations) |->
     IF \E new \in 1..Len(uniqueCitations) :
          SameReference(originalCitations[old], old - 1, uniqueCitations[new])
     THEN CHOOSE new \in 1..Len(uniqueCitations) :
            /\ SameReference(originalCitations[old], old - 1, uniqueCitations[new])
            /\ \A j \in 1..(new - 1) :
                 ~SameReference(originalCitations[old], old - 1, uniqueCitations[j])
     ELSE old]

\* content.replace(new RegExp(`\\[${oldNum}\\]`, "g"), `[${newNum}]`)
ReplaceMarker(content, oldNum, newNum) ==
  [i \in DOMAIN content |->
     IF content[i].kind = "para" /\ content[i].n = oldNum
     THEN [content[i] EXCEPT !.n = newNum]
     ELSE content[i]]

\* updateContentCitationNumbers: one replace-all per entry, in map order
RECURSIVE ApplyEntries(_, _, _)
ApplyEntries(content, citationMap, k) ==
  IF k > Len(citationMap)
  THEN content
  ELSE ApplyEntries(ReplaceMarker(content, k, citationMap[k]), citationMap, k + 1)

updateContentCitationNumbers(content, citationMap) ==
  IF content = <<>> \/ Len(citationMap) = 0
  THEN content
  ELSE ApplyEntries(content, citationMap, 1)

\* the body of the effect that runs when the researchSummary prop changes
EffectResult(summary) ==
  IF ~summary.null /\ Len(summary.citations) > 0
  THEN LET uniqueCitations == getUniqueReferences(summary.citations)
           citationMap == CitationMap(summary.citations, uniqueCitations)
       IN [summary EXCEPT
             !.content = updateContentCitationNumbers(summary.content, citationMap),
             !.citations = uniqueCitations]
  ELSE summary

\* ---- inputs: citations as the server builds them ("authors (year). title.")
ViewCitations ==
  { [authors |-> "A", text |-> <<"A", " ", "(", "1", ")", ".", " ", "T", ".">>, url |-> <<"u", "/", "x">>],
    [authors |-> "A", text |-> <<"A", " ", "(", "1", ")", ".", " ", "T", ".">>, url |-> <<"u", "/", "X">>],
    [authors |-> "B", text |-> <<"B", " ", "(", "2", ")", ".", " ", "U", ".">>, url |-> <<"u", "/", "y">>],
    [authors |-> "N", text |-> <<"N", " ", "(", "3", ")", ".", " ", ".">>, url |-> <<>>],
    [authors |-> "K", text |-> <<"K", " ", "(", "4", ")", ".", " ", "c", "i", "t", "a", "t", "i", "o", "n", "-", "0", ".">>, url |-> <<>>],
    [authors |-> "C", text |-> <<"C", " ", "(", "5", ")", ".", " ", "T", ".">>, url |-> <<"u", "/", "z">>],
    [authors |-> "L",
     text |-> <<"L", " ", "(", "6", ")", ".", " ", "D", "e", "e", "p", " ", "l", "e", "a",
                "r", "n", "i", "n", "g", " ", "x", ".">>,
     url |-> <<"u", "/", "p">>],
    [authors |-> "L",
     text |-> <<"L", " ", "(", "6", ")", ".", " ", "D", "e", "e", "p", " ", "l", "e", "a",
                "r", "n", "i", "n", "g", " ", "y", ".">>,
     url |-> <<"u", "/", "q">>],
    [authors |-> "J", text |-> <<"J", " ", "(", "7", ")", ".", " ", "c", "i", "t", "a", "t", "i", "o", "n", "-", "1", ".">>, url |-> <<>>] }

\* a list of four: the first has no title, the second is titled
\* "citation-0", the fourth's whole text is the start of the second's
ChainedCitations ==
  << [authors |-> "N", text |-> <<"N", " ", "(", "3", ")", ".", " ", ".">>, url |-> <<>>],
     [authors |-> "K", text |-> <<"K", " ", "(", "4", ")", ".", " ", "c", "i", "t", "a", "t", "i", "o", "n", "-", "0", ".">>, url |-> <<>>],
     [authors |-> "B", text |-> <<"B", " ", "(", "2", ")", ".", " ", "U", ".">>, url |-> <<"u", "/", "y">>],
     [authors |-> "K", text |-> <<"K", " ", "(", "4", ")", ".", " ", "c">>, url |-> <<>>] >>

CitationLists == SeqsUpTo(ViewCitations, MaxCitations) \cup {ChainedCitations}

\* documents whose markers all reference positions of the given list
DocumentsFor(citations) ==
  SeqsUpTo([kind : {"para"}, n : 0..Len(citations)], MaxDocLines)

Summary(content, citations) ==
  [null |-> FALSE, title |-> "summary", content |-> content, citations |-> citations]

\* Home.onGenerationStart (called first by InputSection.handleSubmit): the
\* prop becomes null or the empty placeholder
GenerationStart ==
  /\ ~isProcessing
  /\ isProcessing' = TRUE
  /\ \E s \in {NullSummary, [null |-> FALSE, title |-> "", content |-> <<>>,
                             citations |-> <<>>]} :
       /\ researchSummary' = s
       /\ localSummary' = EffectResult(s)
  /\ UNCHANGED <<runVars, serverVars, unitVars>>

\* Home.onGenerationComplete(data) (called by handleSubmit when the request
\* is over): the prop becomes the summary received
GenerationComplete ==
  /\ isProcessing
  /\ isProcessing' = FALSE
  /\ \E citations \in CitationLists :
       \E content \in DocumentsFor(citations) :
         /\ researchSummary' = Summary(content, citations)
         /\ localSummary' = EffectResult(Summary(content, citations))
  /\ UNCHANGED <<runVars, serverVars, unitVars>>

NextView ==
  \/ GenerationStart
  \/ GenerationComplete

SpecView == Init /\ [][NextView]_vars

\* ============================================ the server (routes, storage)
\* texts posted to /api/research/agentic-deep; the schema wants 3 characters
RequestTexts == {"organoids", "ab"}

MinTextLength == 3

\* req.body: an object with a text, or one without
RequestBodies ==
  {[hasText |-> TRUE, text |-> t, arrived |-> TRUE] : t \in RequestTexts}
    \cup {[hasText |-> FALSE, text |-> "", arrived |-> TRUE]}

\* variant: the schema accepts every body
deepResearchSchemaAcceptingAll(body) == TRUE

\* deepResearchSchema.parse(req.body) does not raise:
\* z.object({ text: z.string().min(3) })
deepResearchSchema(body) == body.hasText /\ Len(body.text) >= MinTextLength

Welcome == [type |-> "connection", run |-> 0, seq |-> 0, data |-> Ev("", 0)]

\* the message broadcastResearchProgress builds; run and seq identify the
\* publication for the properties, they are not part of the JSON text
ProgressMessage(r, k, e) == [type |-> "research_progress", run |-> r, seq |-> k, data |-> e]

\* variant: the fan-out does not look at readyState
AudienceIgnoringReadyState == clients

\* the connections broadcastResearchProgress sends to
Audience == {c \in clients : readyState[c] = "OPEN"}

\* global.broadcastResearchProgress(data) of routes.ts
broadcastResearchProgress(s, msg) ==
  [c \in Conns |-> IF c \in Audience THEN Append(s[c], msg) ELSE s[c]]

\* variant: broadcastProgress calls the global without guard and without try
broadcastProgressUnguarded(h, s, msg) ==
  IF h = "routes"
  THEN [raised |-> FALSE, sent |-> broadcastResearchProgress(s, msg)]
  ELSE [raised |-> TRUE, sent |-> s]

\* broadcastProgress(data) of deep-research-agent.ts seen from the run: it
\* calls the global only if it is a function and swallows what it raises
broadcastProgressVia(h, s, msg) ==
  IF h = "routes"
  THEN [raised |-> FALSE, sent |-> broadcastResearchProgress(s, msg)]
  ELSE [raised |-> FALSE, sent |-> s]

\* variant: the events of a block are published last first
InOrderReversed(evs) == [i \in DOMAIN evs |-> evs[Len(evs) + 1 - i]]

\* the order in which a block's broadcastProgress calls are made
InOrder(evs) == evs

\* consecutive broadcastProgress calls of run r (no await in between); k is
\* the number of calls the run made before; stops at a call that raises
RECURSIVE Publish(_, _, _, _, _)
Publish(h, s, r, k, evs) ==
  IF evs = <<>>
  THEN [raised |-> FALSE, sent |-> s, emitted |-> k]
  ELSE LET one == broadcastProgressVia(h, s, ProgressMessage(r, k + 1, Head(evs)))
       IN IF one.raised
          THEN [raised |-> TRUE, sent |-> one.sent, emitted |-> k + 1]
          ELSE Publish(h, one.sent, r, k + 1, Tail(evs))

\* the summary a run returns for the text "organoids"
RunSummary ==
  [title |-> <<"Research on ", "organoids">>, content |-> <<>>, citations |-> <<>>,
   modelUsed |-> "agentic-flow-claude-perplexity"]

\* variant: the identifier is not advanced
saveResearchSummaryReusingId(store, id, summary) ==
  [researchSummaries |-> (id :> [summary |-> summary, id |-> id]) @@ store,
   currentSummaryId |-> id,
   returned |-> summary]

\* MemStorage.saveResearchSummary
saveResearchSummary(store, id, summary) ==
  [researchSummaries |-> (id :> [summary |-> summary, id |-> id]) @@ store,
   currentSummaryId |-> id + 1,
   returned |-> summary]

\* wss.on('connection'): the connection joins the set and is greeted
Connect(c) ==
  /\ hub = "routes"
  /\ readyState[c] = "NONE"
  /\ clients' = clients \cup {c}
  /\ readyState' = [readyState EXCEPT ![c] = "OPEN"]
  /\ sent' = [sent EXCEPT ![c] = Append(@, Welcome)]
  /\ UNCHANGED <<hub, runPc, fate, emitted, callsMade, researchSummaries,
                 currentSummaryId, response, request, runVars, viewVars, unitVars>>

\* the socket closes; its 'close' handler has not run yet
Disconnect(c) ==
  /\ readyState[c] = "OPEN"
  /\ readyState' = [readyState EXCEPT ![c] = "CLOSED"]
  /\ UNCHANGED <<hub, clients, sent, runPc, fate, emitted, callsMade,
                 researchSummaries, currentSummaryId, response, request,
                 runVars, viewVars, unitVars>>

\* ws.on('close'): the connection leaves the set
OnClose(c) ==
  /\ c \in clients
  /\ readyState[c] = "CLOSED"
  /\ clients' = clients \ {c}
  /\ UNCHANGED <<hub, readyState, sent, runPc, fate, emitted, callsMade,
                 researchSummaries, currentSummaryId, response, request,
                 runVars, viewVars, unitVars>>

\* the catch block of processDeepResearch followed by the route's catch:
\* the error event is published, the run throws, the request is answered 500
Abort(r, s, k) ==
  LET p == Publish(hub, s, r, k, <<Ev("error", -1)>>)
  IN /\ sent' = p.sent
     /\ emitted' = [emitted EXCEPT ![r] = p.emitted]
     /\ runPc' = [runPc EXCEPT ![r] = "thrown"]
     /\ response' = [response EXCEPT ![r] = [status |-> 500, body |-> <<>>]]

\* one block of the run: the events published without an await in between,
\* then either the next external call and the next await, or the catch block
Block(r, evs, nextCall, nextPc) ==
  LET p == Publish(hub, sent, r, emitted[r], InOrder(evs))
  IN IF p.raised
     THEN /\ Abort(r, p.sent, p.emitted)
          /\ UNCHANGED callsMade
     ELSE /\ sent' = p.sent
          /\ emitted' = [emitted EXCEPT ![r] = p.emitted]
          /\ callsMade' = [callsMade EXCEPT ![r] = Append(@, nextCall)]
          /\ runPc' = [runPc EXCEPT ![r] = nextPc]
          /\ UNCHANGED response

\* POST /api/research/agentic-deep: validation, then processDeepResearch up
\* to its first await
Receive(r) ==
  /\ runPc[r] = "idle"
  /\ \E body \in RequestBodies :
       /\ request' = [request EXCEPT ![r] = body]
       /\ IF ~deepResearchSchema(body)
          THEN /\ runPc' = [runPc EXCEPT ![r] = "rejected"]
               /\ response' = [response EXCEPT ![r] = [status |-> 400, body |-> <<>>]]
               /\ UNCHANGED <<sent, emitted, callsMade>>
          ELSE Block(r, <<Ev("starting", 0), Ev("query_generation", 10)>>,
                     "claude_query", "awaitQuery")
  /\ UNCHANGED <<hub, clients, readyState, fate, researchSummaries,
                 currentSummaryId, runVars, viewVars, unitVars>>

\* createOptimizedQuery resolved (reply or fallback)
QueryResolved(r) ==
  /\ runPc[r] = "awaitQuery"
  /\ Block(r, <<Ev("query_complete", 30), Ev("research", 40)>>,
           "perplexity", "awaitResearch")
  /\ UNCHANGED <<hub, clients, readyState, fate, researchSummaries,
                 currentSummaryId, request, runVars, viewVars, unitVars>>

\* makePerplexitySonarQuery resolved or rejected; the run goes on when it
\* resolved and the citation step did not raise
ResearchResolved(r) ==
  /\ runPc[r] = "awaitResearch"
  /\ \E ok \in BOOLEAN, citationUrls \in UrlLists :
       IF ok /\ ~CitationStep(revision, citationUrls).threw
       THEN /\ fate' = [fate EXCEPT ![r] = "returns"]
            /\ Block(r, <<Ev("research_complete", 70), Ev("formatting", 80)>>,
                     "claude_format", "awaitFormat")
       ELSE /\ fate' = [fate EXCEPT ![r] = "throws"]
            /\ Abort(r, sent, emitted[r])
            /\ UNCHANGED callsMade
  /\ UNCHANGED <<hub, clients, readyState, researchSummaries, currentSummaryId,
                 request, runVars, viewVars, unitVars>>

\* createStructuredOutput resolved (reply or fallback): the run returns, the
\* route stores the summary and answers with what the store handed back
FormatResolved(r) ==
  /\ runPc[r] = "awaitFormat"
  /\ LET p == Publish(hub, sent, r, emitted[r], <<Ev("complete", 100)>>)
         saved == saveResearchSummary(researchSummaries, currentSummaryId, RunSummary)
     IN IF p.raised
        THEN /\ Abort(r, p.sent, p.emitted)
             /\ UNCHANGED <<researchSummaries, currentSummaryId>>
        ELSE /\ sent' = p.sent
             /\ emitted' = [emitted EXCEPT ![r] = p.emitted]
             /\ runPc' = [runPc EXCEPT ![r] = "returned"]
             /\ researchSummaries' = saved.researchSummaries
             /\ currentSummaryId' = saved.currentSummaryId
             /\ response' = [response EXCEPT ![r] = [status |-> 200, body |-> saved.returned]]
  /\ UNCHANGED <<hub, clients, readyState, fate, callsMade, request, runVars, viewVars, unitVars>>

NextServer ==
  \/ \E c \in Conns : Connect(c)
  \/ \E c \in Conns : Disconnect(c)
  \/ \E c \in Conns : OnClose(c)
  \/ \E r \in RunIds : Receive(r)
  \/ \E r \in RunIds : QueryResolved(r)
  \/ \E r \in RunIds : ResearchResolved(r)
  \/ \E r \in RunIds : FormatResolved(r)

InitServer ==
  /\ hub \in Hubs
  /\ ServerConstructed
  /\ revision \in Revisions
  /\ topic = "organoids"
  /\ pc = "idle"
  /\ events = <<>>
  /\ calls = <<>>
  /\ inflight = {}
  /\ optimizedQuery = ""
  /\ queryFailed = FALSE
  /\ researchOutcome = [status |-> "none", cause |-> ""]
  /\ perplexityResults = NoResults
  /\ perplexityCitations = <<>>
  /\ formatFailed = FALSE
  /\ result = NoSummary
  /\ thrown = NoError
  /\ searchDomains = <<>>
  /\ isProcessing = FALSE
  /\ researchSummary = NullSummary
  /\ localSummary = NullSummary
  /\ UnitsIdle

SpecServer == InitServer /\ [][NextServer]_vars

\* ================================================= processCitations on its own
MaxArgLen == 3

\* strings a citation list can hold: the two urls, text that is no url, ""
UrlStrings == Urls \cup {"not a url", ""}

\* arguments of processCitations: undefined, or a list of strings
CitationArgs ==
  {[absent |-> TRUE, urls |-> <<>>]}
    \cup {[absent |-> FALSE, urls |-> u] : u \in SeqsUpTo(UrlStrings, MaxArgLen)}

\* one call of processCitations: `!citationUrls` sends undefined to the
\* sentinel as well; no statement of the function raises on strings
Normalize ==
  /\ ~normalized.done
  /\ normalized' = [done |-> TRUE, threw |-> FALSE,
                    citations |-> IF citationArg.absent
                                  THEN processCitations(<<>>)
                                  ELSE processCitations(citationArg.urls)]
  /\ UNCHANGED <<citationArg, enhancerVars, submitVars, runVars, viewVars, serverVars>>

\* the state in which nothing of the pipeline, the page or the server has run
Idle ==
  /\ hub = "routes"
  /\ ServerConstructed
  /\ revision = "agent"
  /\ topic = "organoids"
  /\ pc = "idle"
  /\ events = <<>>
  /\ calls = <<>>
  /\ inflight = {}
  /\ optimizedQuery = ""
  /\ queryFailed = FALSE
  /\ researchOutcome = [status |-> "none", cause |-> ""]
  /\ perplexityResults = NoResults
  /\ perplexityCitations = <<>>
  /\ formatFailed = FALSE
  /\ result = NoSummary
  /\ thrown = NoError
  /\ searchDomains = <<>>
  /\ isProcessing = FALSE
  /\ researchSummary = NullSummary
  /\ localSummary = NullSummary

InitCitations ==
  /\ Idle
  /\ EnhancerIdle
  /\ FormIdle
  /\ citationArg \in CitationArgs
  /\ normalized = NotNormalized

NextCitations == Normalize

SpecCitations == InitCitations /\ [][NextCitations]_vars

\* ======================================== enhanceTextWithCitations on its own
MaxClaims == 3
MaxSources == 2

\* the texts submitted; their characters are letters
OriginalTexts == {<<"a", "b", "c">>}

\* the claims identifyClaimsNeedingCitations returns for a text: end
\* positions within the text, in whatever order the model lists them
\* (the empty list also when the step fails)
FragmentLists(txt) == SeqsUpTo([endIndex : 0..Len(txt)], MaxClaims)

\* String(n) for a citation number
NumberText(n) ==
  IF n < 10 THEN <<Digit(n)>> ELSE <<Digit(n \div 10), Digit(n % 10)>>

\* citationIndices.join(", ")
RECURSIVE JoinIndices(_)
JoinIndices(indices) ==
  IF Len(indices) = 0 THEN <<>>
  ELSE IF Len(indices) = 1 THEN NumberText(indices[1])
  ELSE NumberText(indices[1]) \o <<",", " ">> \o JoinIndices(Tail(indices))

\* `[${citationIndices.join(", ")}]`
CitationText(citationIndices) == <<"[">> \o JoinIndices(citationIndices) \o <<"]">>

\* variant: the numbers are taken before the counter is incremented
CitationIndicesPostIncrement(count, n) == [i \in 1..n |-> count + i - 1]

\* sources.map(() => ++citationCount)
CitationIndices(count, n) == [i \in 1..n |-> count + i]

\* String.prototype.substring(from, to) with 0-based, clamped bounds
Substring(str, from, to) ==
  LET lo == Min(IF from < 0 THEN 0 ELSE from, Len(str))
      hi == Min(IF to < 0 THEN 0 ELSE to, Len(str))
  IN SubSeq(str, Min(lo, hi) + 1, IF lo < hi THEN hi ELSE lo)

\* the sources findOriginalSources returns for the claim handled as number
\* `claim`: n records (none when nothing is found or the lookup fails)
Sources(claim, n) == [r \in 1..n |-> [claim |-> claim, rank |-> r]]

\* formatCitation(source, index): the index is not used
formatCitation(source, index) == [authors |-> source, text |-> source]

\* one iteration of the loop over the claims: the lookup, then numbers,
\* citations and the marker when sources were found.  A reply whose JSON
\* has no "sources" makes findOriginalSources return undefined; reading
\* its length raises, and the catch block rethrows.
HandleFragment ==
  /\ enhPc = "loop"
  /\ Len(citationIndicesOf) < Len(fragments)
  /\ LET claim == Len(citationIndicesOf) + 1
         fragment == fragments[claim]
     IN \/ /\ enhPc' = "thrown"
           /\ UNCHANGED <<enhancedText, allCitations, citationCount, citationIndicesOf>>
        \/ \E n \in 0..MaxSources :
             LET sources == Sources(claim, n)
                 citationIndices == CitationIndices(citationCount, n)
                 offset == Len(enhancedText) - Len(originalText)
                 insertPosition == fragment.endIndex + offset
             IN /\ citationCount' = citationCount + n
                /\ allCitations' =
                     allCitations \o [r \in 1..n |->
                                        formatCitation(sources[r], citationIndices[r])]
                /\ enhancedText' =
                     IF n > 0
                     THEN Substring(enhancedText, 0, insertPosition)
                            \o CitationText(citationIndices)
                            \o Substring(enhancedText, insertPosition, Len(enhancedText))
                     ELSE enhancedText
                /\ citationIndicesOf' = Append(citationIndicesOf, citationIndices)
                /\ UNCHANGED enhPc
  /\ UNCHANGED <<originalText, fragments, normalizerVars, submitVars, runVars,
                 viewVars, serverVars>>

\* the loop is over: { originalText, enhancedText, citations } is returned
ReturnEnhanced ==
  /\ enhPc = "loop"
  /\ Len(citationIndicesOf) = Len(fragments)
  /\ enhPc' = "returned"
  /\ UNCHANGED <<originalText, fragments, enhancedText, allCitations, citationCount,
                 citationIndicesOf, normalizerVars, submitVars, runVars, viewVars,
                 serverVars>>

\* enhanceTextWithCitations(text) after identifyClaimsNeedingCitations
InitEnhance ==
  /\ Idle
  /\ NormalizerIdle
  /\ FormIdle
  /\ originalText \in OriginalTexts
  /\ fragments \in FragmentLists(originalText)
  /\ enhPc = "loop"
  /\ enhancedText = originalText
  /\ allCitations = <<>>
  /\ citationCount = 0
  /\ citationIndicesOf = <<>>

NextEnhance ==
  \/ HandleFragment
  \/ ReturnEnhanced

SpecEnhance == InitEnhance /\ [][NextEnhance]_vars

\* ================================================ InputSection.handleSubmit
\* the two revisions of InputSection in the source tree
FormRevisions == {"InputSection.tsx", "part_003"}

\* GenerateResearchRequest: a discriminated union on type; text and keywords
\* arrive trimmed and non-empty, a pdf request carries neither
FormData == [type : {"text", "keywords", "pdf"}]

\* the tab and mode the user has selected when the form is submitted; in
\* InputSection.tsx the keywords tab sets the mode to "deep", part_003 has
\* no mode state
Selections(rev) ==
  IF rev = "part_003"
  THEN [activeTab : {"text", "keywords"}, researchMode : {"standard"}]
  ELSE {sel \in [activeTab : {"text", "keywords"},
                 researchMode : {"standard", "preserve", "deep"}] :
          sel.activeTab = "keywords" => sel.researchMode = "deep"}

\* the isDeepResearch flag handleSubmit passes to onGenerationStart
IsDeepResearch(rev, sel) ==
  IF rev = "part_003" THEN sel.activeTab = "keywords" ELSE sel.researchMode = "deep"

\* the summary Home.onGenerationStart puts in place
Placeholder(isDeepResearch) ==
  IF isDeepResearch
  THEN [null |-> FALSE, title |-> "", content |-> <<>>, citations |-> <<>>]
  ELSE NullSummary

\* the summary the catch block hands to onGenerationComplete
EmptySummary == [null |-> FALSE, title |-> "", content |-> <<>>, citations |-> <<>>]

\* the summaries a request that succeeds hands to onGenerationComplete
ReceivedSummaries ==
  {Summary(<<>>, citations) : citations \in SeqsUpTo(ViewCitations, 1)}

\* what handleSubmit does after onGenerationStart and before its first
\* await: "request" when a branch starts a request, "throw" when the deep
\* branch finds no input text, "none" when no branch is taken
BranchTaken(rev, sel, data) ==
  IF rev = "part_003"
  THEN IF sel.activeTab = "text" /\ data.type = "text" THEN "request"
       ELSE IF sel.activeTab = "keywords"
            THEN IF data.type = "keywords" THEN "request" ELSE "throw"
            ELSE "none"
  ELSE IF sel.researchMode = "preserve" /\ data.type = "text" THEN "request"
       ELSE IF sel.researchMode = "deep" \/ sel.activeTab = "keywords"
            THEN IF data.type \in {"text", "keywords"} THEN "request" ELSE "throw"
            ELSE "request"

\* the catch block: toast, then onGenerationComplete with the empty summary
CompleteOnThrow(summary) ==
  [isProcessing |-> FALSE, researchSummary |-> EmptySummary, completions |-> 1]

\* the button is pressed (it is disabled while isProcessing): handleSubmit
\* runs from onGenerationStart to its first await, or to its end when no
\* request is started
SubmitForm ==
  /\ ~isProcessing
  /\ submitPc \in {"idle", "ended"}
  /\ \E sel \in Selections(formRevision), data \in FormData :
       LET started == Placeholder(IsDeepResearch(formRevision, sel))
           branch == BranchTaken(formRevision, sel, data)
           caught == CompleteOnThrow(started)
       IN /\ activeTab' = sel.activeTab
          /\ researchMode' = sel.researchMode
          /\ formData' = data
          /\ IF branch = "request"
             THEN /\ isProcessing' = TRUE
                  /\ researchSummary' = started
                  /\ completions' = 0
                  /\ submitPc' = "awaiting"
             ELSE IF branch = "throw"
             THEN /\ isProcessing' = caught.isProcessing
                  /\ researchSummary' = caught.researchSummary
                  /\ completions' = caught.completions
                  /\ submitPc' = "ended"
             ELSE /\ isProcessing' = TRUE
                  /\ researchSummary' = started
                  /\ completions' = 0
                  /\ submitPc' = "ended"
          /\ localSummary' = EffectResult(researchSummary')
  /\ UNCHANGED <<formRevision, normalizerVars, enhancerVars, runVars, serverVars>>

\* the request settles: the line after the await calls onGenerationComplete
\* with the result, or the catch block calls it with the empty summary
RequestSettles ==
  /\ submitPc = "awaiting"
  /\ \E ok \in BOOLEAN, received \in ReceivedSummaries :
       LET caught == CompleteOnThrow(researchSummary) IN
       /\ isProcessing' = IF ok THEN FALSE ELSE caught.isProcessing
       /\ researchSummary' = IF ok THEN received ELSE caught.researchSummary
       /\ completions' = completions + (IF ok THEN 1 ELSE caught.completions)
       /\ localSummary' = EffectResult(researchSummary')
  /\ submitPc' = "ended"
  /\ UNCHANGED <<formRevision, activeTab, researchMode, formData, normalizerVars,
                 enhancerVars, runVars, serverVars>>

InitSubmit ==
  /\ Idle
  /\ NormalizerIdle
  /\ EnhancerIdle
  /\ formRevision \in FormRevisions
  /\ activeTab = "text"
  /\ researchMode = "standard"
  /\ formData = [type |-> "none"]
  /\ submitPc = "idle"
  /\ completions = 0

NextSubmit ==
  \/ SubmitForm
  \/ RequestSettles

\* a request, once sent, is answered or fails, and the continuation runs
SpecSubmit == InitSubmit /\ [][NextSubmit]_vars /\ WF_vars(NextSubmit)

\* ======================================================= properties checked
ProvenanceTag == "agentic-flow-claude-perplexity"

Finished == pc \in {"returned", "thrown"}

ErrorEvents == {i \in DOMAIN events : events[i].stage = "error"}

TerminalEvents == {i \in DOMAIN events : events[i].stage \in {"complete", "error"}}

CallsTo(svc) == {i \in DOMAIN calls : calls[i].svc = svc}

SuccessEvents ==
  << Ev("starting", 0), Ev("query_generation", 10), Ev("query_complete", 30),
     Ev("research", 40), Ev("research_complete", 70), Ev("formatting", 80),
     Ev("complete", 100) >>

\* C1: whatever the outcomes of the query-optimizer and output-structurer
\* calls, a run whose search call succeeded does not abort: it publishes no
\* error event, throws nothing and, once finished, has returned a summary
\* tagged "agentic-flow-claude-perplexity".
C1_OnlyResearchFailureAborts ==
  researchOutcome.status = "ok" =>
    /\ pc # "thrown"
    /\ ErrorEvents = {}
    /\ thrown = NoError
    /\ pc = "returned" => result.modelUsed = ProvenanceTag

\* C2: when the search call fails the run throws "Deep research agent
\* failure: " followed by the cause, the error event with progress -1 has
\* been published, and the output structurer was never called.
C2_ResearchFailureIsFatal ==
  researchOutcome.status = "failed" =>
    /\ pc = "thrown"
    /\ thrown = <<"Deep research agent failure: ", researchOutcome.cause>>
    /\ Len(events) > 0
    /\ events[Len(events)] = Ev("error", -1)
    /\ CallsTo("claude_format") = {}

C2_Witness ==
  /\ researchOutcome.status = "failed"
  /\ pc = "thrown"
  /\ thrown[2] \in ResearchFailures

\* C3: a run that returned a summary has published exactly the seven stage
\* events starting(0), query_generation(10), query_complete(30), research(40),
\* research_complete(70), formatting(80), complete(100), in this order, each
\* once.
C3_SuccessPublishesSevenStages ==
  pc = "returned" => events = SuccessEvents

C3_Witness ==
  /\ pc = "returned"
  /\ Len(events) = 7

\* C4: in every run the progress values of the non-error events never
\* decrease, a terminal event (complete with 100, error with -1) is published
\* at most once and only as the last event, and a finished run has published
\* exactly one of them.
C4_MonotoneProgressOneTerminal ==
  /\ \A i, j \in DOMAIN events :
       (i < j /\ events[i].stage # "error" /\ events[j].stage # "error")
         => events[i].progress <= events[j].progress
  /\ \A i \in TerminalEvents :
       /\ i = Len(events)
       /\ events[i] \in {Ev("complete", 100), Ev("error", -1)}
  /\ Finished <=> TerminalEvents # {}
  /\ Cardinality(TerminalEvents) <= 1

C4_Witness ==
  /\ pc = "thrown"
  /\ Len(events) = 5
  /\ events[5] = Ev("error", -1)

\* C5: when the query optimizer's chat call fails, the run goes on and the
\* query handed to the search call is the input topic, verbatim.
C5_QueryFallbackIsTopic ==
  queryFailed =>
    /\ optimizedQuery = topic
    /\ Cardinality(CallsTo("perplexity")) = 1
    /\ \A i \in CallsTo("perplexity") : calls[i].query = topic
    /\ (pc = "thrown" => researchOutcome.status # "none")

C5_Witness ==
  /\ queryFailed
  /\ pc = "returned"
  /\ calls[2].svc = "perplexity"
  /\ calls[2].query = topic

\* C6: when the output structurer's chat call fails, the run still returns:
\* the content is the raw content of the search call, the title is
\* "Research on " followed by the topic, and the citations are the list that
\* was passed to the structurer.
C6_FormatFallbackIsRawContent ==
  formatFailed =>
    /\ pc = "returned"
    /\ result.content = perplexityResults.content
    /\ result.title = <<"Research on ", topic>>
    /\ \A i \in CallsTo("claude_format") : result.citations = calls[i].citations
    /\ CallsTo("claude_format") # {}

C6_Witness ==
  /\ formatFailed
  /\ pc = "returned"
  /\ Len(result.content) > 0
  /\ Len(result.citations) > 0

\* C7: a run calls the search service at most once, exactly once as soon as
\* it has reached the research stage, and does not call it again after the
\* call failed.
C7_SingleSearchCall ==
  /\ Cardinality(CallsTo("perplexity")) <= 1
  /\ (pc \notin {"idle", "awaitQuery"}) => Cardinality(CallsTo("perplexity")) = 1
  /\ researchOutcome.status = "failed" => "perplexity" \notin inflight

C7_Witness ==
  /\ researchOutcome.status = "failed"
  /\ Cardinality(CallsTo("perplexity")) = 1

\* C8: at most one external call is in flight at any time, the calls start in
\* the order query optimizer, search, output structurer, and a call in flight
\* is always the one started last.
C8_CallsAreSequential ==
  /\ Cardinality(inflight) <= 1
  /\ Len(calls) <= 3
  /\ \A i \in DOMAIN calls :
       calls[i].svc = <<"claude_query", "perplexity", "claude_format">>[i]
  /\ \A svc \in inflight : calls[Len(calls)].svc = svc

C8_Witness ==
  /\ Len(calls) = 3
  /\ inflight = {"claude_format"}

\* number of distinct sources among the urls the search call returned
UniqueSources == Cardinality(Range(perplexityResults.citations))

\* C9: in every successful run the result has as many citations as there are
\* unique sources, and every marker [n] of its content has 1 <= n <=
\* citations.length.
C9_ResultCitationsConsistent ==
  pc = "returned" =>
    /\ Len(result.citations) = UniqueSources
    /\ \A n \in Markers(result.content) : 1 <= n /\ n <= Len(result.citations)

\* ---- what the deduplication is meant to produce (stated on the input list)
\* the citations at positions k and i are filed under a common title or url
SharesKey(citations, k, i) ==
  \/ TitleOf(citations[k], k - 1) = TitleOf(citations[i], i - 1)
  \/ UrlOf(citations[k], k - 1) = UrlOf(citations[i], i - 1)

\* position i holds the first occurrence of its source
RECURSIVE IsFirstOccurrence(_, _)
IsFirstOccurrence(citations, i) ==
  \A k \in 1..(i - 1) : IsFirstOccurrence(citations, k) => ~SharesKey(citations, k, i)

FirstOccurrences(citations) ==
  {i \in DOMAIN citations : IsFirstOccurrence(citations, i)}

\* 1-based position, in the deduplicated list, of the kept position k
NewPosition(citations, k) ==
  Cardinality({j \in FirstOccurrences(citations) : j <= k})

\* the first occurrences in original order
FirstOccurrenceList(citations) ==
  [r \in 1..Cardinality(FirstOccurrences(citations)) |->
     citations[CHOOSE k \in FirstOccurrences(citations) : NewPosition(citations, k) = r]]

\* new numbers acceptable for the marker [i]: the citation's own new position
\* when it is kept, the new position of a kept duplicate otherwise
SurvivorPositions(citations, i) ==
  IF i \in FirstOccurrences(citations)
  THEN {NewPosition(citations, i)}
  ELSE {NewPosition(citations, k) :
          k \in {j \in FirstOccurrences(citations) : j < i /\ SharesKey(citations, j, i)}}

\* the effect ran on a summary with citations
Deduplicated == ~researchSummary.null /\ Len(researchSummary.citations) > 0

\* C10: for every citation list and every document whose markers reference
\* positions of that list, after deduplication and renumbering every marker
\* of the rewritten document is at most the length of the deduplicated list.
C10_MarkersWithinDeduplicatedList ==
  (~researchSummary.null /\ Len(researchSummary.citations) > 0) =>
    \A n \in Markers(localSummary.content) : n <= Len(localSummary.citations)

\* C11: deduplication keeps the first occurrence of each source in original
\* order, and every marker [i] of the document is rewritten to [j], j being
\* the position in the deduplicated list of the entry that survived for
\* citation i (its own new position if kept, the kept duplicate's otherwise).
C11_FirstOccurrenceKeptMarkersFollow ==
  Deduplicated =>
    LET L == researchSummary.citations
        D == researchSummary.content
        D2 == localSummary.content
    IN /\ localSummary.citations = FirstOccurrenceList(L)
       /\ Len(D2) = Len(D)
       /\ \A l \in DOMAIN D :
            /\ D2[l].kind = D[l].kind
            /\ IF D[l].n = 0
               THEN D2[l].n = 0
               ELSE D2[l].n \in SurvivorPositions(L, D[l].n)

\* C12: deduplication with renumbering is idempotent: run again on the
\* deduplicated list and the rewritten document, it changes neither.
C12_DeduplicationIdempotent ==
  Deduplicated =>
    /\ EffectResult(localSummary).citations = localSummary.citations
    /\ EffectResult(localSummary).content = localSummary.content

\* the dedup key of the citation at 0-based position index: the lowercase url
\* when there is one, otherwise the title fragment, otherwise the per-index key
DedupKey(citation, index) ==
  IF citation.url # <<>>
  THEN toLowerCase(citation.url)
  ELSE TitleOf(citation, index)

DuplicateFree(citations) ==
  \A i, j \in DOMAIN citations :
    i # j => DedupKey(citations[i], i - 1) # DedupKey(citations[j], j - 1)

\* C13: for a citation list in which no two citations share a dedup key,
\* deduplication with renumbering returns the list and the document unchanged.
C13_DuplicateFreeIsUnchanged ==
  (Deduplicated /\ DuplicateFree(researchSummary.citations)) =>
    /\ localSummary.citations = researchSummary.citations
    /\ localSummary.content = researchSummary.content

\* C14: the citation list passed to the output structurer, and the one the
\* run returns, is exactly the normaliser's output for the url list the search
\* call returned, nothing added; with zero urls it is the one sentinel
\* citation.
C14_CitationsAreNormalizerOutput ==
  /\ \A i \in CallsTo("claude_format") :
       /\ calls[i].citations = processCitations(perplexityResults.citations)
       /\ Len(perplexityResults.citations) = 0 =>
            calls[i].citations = <<SentinelCitation>>
  /\ pc = "returned" =>
       result.citations = processCitations(perplexityResults.citations)

\* lines of a content that carry text of a reasoning trace
TraceLines(content) == {i \in DOMAIN content : content[i].kind = "think"}

\* C15: no text of a reasoning trace found in the raw content of the search
\* service appears in the content of the summary returned to the caller, by
\* processDeepResearch or by generateResearchSummary.
C15_TraceExcludedFromContent ==
  pc = "returned" =>
    /\ TraceLines(result.content) = {}
    /\ TraceLines(generateResearchSummaryContent(perplexityResults.content)) = {}

\* the research_progress messages among those sent on a connection
IsProgress(m) == m.type = "research_progress"

ProgressOf(msgs) == SelectSeq(msgs, IsProgress)

\* C16: a published progress event is sent to exactly the connections that
\* are in the set and open at the moment of publication; a connection that
\* joins later is not sent it, and a connection that has closed is sent
\* nothing afterwards.
C16_FanOutToOpenSubscribersOnly ==
  [][ \A c \in Conns :
        IF hub = "routes" /\ c \in clients /\ readyState[c] = "OPEN"
        THEN /\ SubSeq(sent'[c], 1, Len(sent[c])) = sent[c]
             /\ \A r \in RunIds :
                  \A k \in (emitted[r] + 1)..emitted'[r] :
                    /\ Len(sent'[c]) = Len(sent[c]) + emitted'[r] - emitted[r]
                    /\ sent'[c][Len(sent[c]) + k - emitted[r]].type = "research_progress"
                    /\ sent'[c][Len(sent[c]) + k - emitted[r]].run = r
                    /\ sent'[c][Len(sent[c]) + k - emitted[r]].seq = k
             /\ (\A r \in RunIds : emitted'[r] = emitted[r]) => sent'[c] = sent[c]
        ELSE ProgressOf(sent'[c]) = ProgressOf(sent[c]) ]_vars

C16_Witness ==
  \E c1, c2 \in Conns :
    /\ readyState[c1] = "CLOSED"
    /\ readyState[c2] = "OPEN"
    /\ ProgressOf(sent[c1]) # <<>>
    /\ ProgressOf(sent[c2]) # <<>>
    /\ Range(sent[c1]) \cap Range(sent[c2]) = {Welcome}

\* emission order of the stages within a run
StageOrder ==
  << "starting", "query_generation", "query_complete", "research",
     "research_complete", "formatting", "complete", "error" >>

StageRank(stage) == CHOOSE i \in DOMAIN StageOrder : StageOrder[i] = stage

\* C17: with concurrent runs and connections coming and going, the events of
\* any one run reach each connection in the run's emission order, each at
\* most once.
C17_PerRunOrderPerSubscriber ==
  \A c \in Conns :
    LET p == ProgressOf(sent[c])
    IN \A i, j \in DOMAIN p :
         (i < j /\ p[i].run = p[j].run) =>
           /\ StageRank(p[i].data.stage) < StageRank(p[j].data.stage)
           /\ p[i].seq < p[j].seq

C17_Witness ==
  \E c \in Conns :
    LET p == ProgressOf(sent[c])
    IN \E i, j, k \in DOMAIN p :
         /\ i < j /\ j < k
         /\ p[i].run = p[k].run
         /\ p[j].run # p[i].run

\* C18: what a run does (returns or throws, the external calls it makes, the
\* number of events it emits) depends on the external replies only, not on
\* the hub, on who is connected, or on a broadcast raising.
C18_BroadcastNeverSteersTheRun ==
  \A r \in RunIds :
    /\ runPc[r] = "thrown" <=> fate[r] = "throws"
    /\ fate[r] = "returns" <=> runPc[r] \in {"awaitFormat", "returned"}
    /\ runPc[r] = "awaitQuery" => callsMade[r] = <<"claude_query">> /\ emitted[r] = 2
    /\ runPc[r] = "awaitResearch" =>
         callsMade[r] = <<"claude_query", "perplexity">> /\ emitted[r] = 4
    /\ runPc[r] = "thrown" =>
         callsMade[r] = <<"claude_query", "perplexity">> /\ emitted[r] = 5
    /\ runPc[r] = "awaitFormat" =>
         callsMade[r] = <<"claude_query", "perplexity", "claude_format">> /\ emitted[r] = 6
    /\ runPc[r] = "returned" =>
         /\ callsMade[r] = <<"claude_query", "perplexity", "claude_format">>
         /\ emitted[r] = 7
         /\ response[r] = [status |-> 200, body |-> RunSummary]

C18_Witness ==
  /\ hub = "raising"
  /\ \E r1, r2 \in RunIds : runPc[r1] = "returned" /\ runPc[r2] = "thrown"

\* C19: a summary is stored only when its run has returned, once, under an
\* identifier not used before; failed or rejected requests store nothing;
\* stored entries stay as they were stored; the summary handed back is the
\* one given.
C19_StoredOncePerReturnedRun ==
  /\ DOMAIN researchSummaries = 1..(currentSummaryId - 1)
  /\ Cardinality({r \in RunIds : runPc[r] = "returned"}) = currentSummaryId - 1
  /\ \A id \in DOMAIN researchSummaries :
       researchSummaries[id] = [summary |-> RunSummary, id |-> id]
  /\ \A r \in RunIds :
       runPc[r] = "returned" => response[r] = [status |-> 200, body |-> RunSummary]

C19_Witness ==
  /\ \E r \in RunIds : runPc[r] = "thrown"
  /\ \E r \in RunIds : runPc[r] = "returned"
  /\ currentSummaryId = 2

\* C20: when every external call eventually returns or fails, every run
\* eventually has published its one terminal event (complete or error) and
\* has returned or thrown; it does not stay in an intermediate stage.
C20_RunEventuallyFinishes ==
  <>[](Finished /\ Cardinality(TerminalEvents) = 1)

C20_Witness ==
  /\ pc = "returned"
  /\ events[Len(events)] = Ev("complete", 100)
  /\ inflight = {}

\* ---------------------------------------------------------------- C21
\* a request body without a text, or with a text of fewer than 3 characters
TextMissingOrTooShort(body) == ~body.hasText \/ Len(body.text) < 3

\* requests whose run returned and was stored
StoredRuns == {r \in RunIds : runPc[r] = "returned"}

\* C21: a request to the agentic deep-research endpoint whose text is missing
\* or shorter than 3 characters is answered 400 before the pipeline starts:
\* it publishes no progress event (none is counted for it and no message of
\* it is in any connection's stream), starts no external call, and stores no
\* summary (the store holds exactly one record per returned run)
C21_InvalidRequestRejectedBeforePipeline ==
  \A r \in RunIds :
    request[r].arrived /\ TextMissingOrTooShort(request[r]) =>
      /\ runPc[r] = "rejected"
      /\ response[r].status = 400
      /\ emitted[r] = 0
      /\ callsMade[r] = <<>>
      /\ \A c \in Conns : \A i \in 1..Len(sent[c]) : sent[c][i].run # r
      /\ Cardinality(DOMAIN researchSummaries) = Cardinality(StoredRuns)

\* both kinds of invalid request have been rejected, one without a text and
\* one with a short text, while a connection was open to hear of it
C21_Witness ==
  /\ \E r \in RunIds : request[r].arrived /\ ~request[r].hasText /\ runPc[r] = "rejected"
  /\ \E r \in RunIds : request[r].arrived /\ request[r].hasText
                         /\ Len(request[r].text) < 3 /\ runPc[r] = "rejected"
  /\ \E c \in Conns : readyState[c] = "OPEN"

\* ---------------------------------------------------------------- C22
\* C22: when the caller supplies a non-empty list of search domains with a
\* deep-research request, every search call of that run (there is at most
\* one) carries exactly that list as its source-domain allow-list
C22_SearchUsesSuppliedDomains ==
  searchDomains # <<>> =>
    \A i \in CallsTo("perplexity") : calls[i].domains = searchDomains

\* a run whose caller supplied domains other than the literal list has made
\* its search call
C22_Witness ==
  /\ searchDomains = <<"arxiv.org">>
  /\ CallsTo("perplexity") # {}

\* ---------------------------------------------------------------- C23
SentinelAuthors == "No citations available"

\* C23: for an empty or absent list of citation urls processCitations
\* returns exactly one citation, the sentinel (authors "No citations
\* available", empty url), never an empty list; for a non-empty list it
\* returns no sentinel
C23_SentinelExactlyForEmptyInput ==
  normalized.done =>
    IF citationArg.absent \/ Len(citationArg.urls) = 0
    THEN /\ Len(normalized.citations) = 1
         /\ normalized.citations[1].authors = SentinelAuthors
         /\ normalized.citations[1].url = ""
    ELSE /\ Len(normalized.citations) > 0
         /\ \A i \in DOMAIN normalized.citations :
              normalized.citations[i].authors # SentinelAuthors

\* processCitations has been called with the empty list
C23_Witness ==
  /\ normalized.done
  /\ ~citationArg.absent
  /\ citationArg.urls = <<>>

\* ---------------------------------------------------------------- C24
\* strings the pattern /https?:\/\/(?:www\.)?([^\/]+)/ does not match
Unparsable(url) == url \notin Urls

\* C24: for every list of strings processCitations does not throw, and an
\* entry that cannot be parsed as a url yields a minimal citation whose
\* text and url are both the raw input string
C24_UnparsableEntryKeptRaw ==
  normalized.done /\ ~citationArg.absent =>
    /\ ~normalized.threw
    /\ \A i \in DOMAIN citationArg.urls :
         Unparsable(citationArg.urls[i]) =>
           /\ normalized.citations[i].url = citationArg.urls[i]
           /\ normalized.citations[i].text = <<citationArg.urls[i]>>

\* ---------------------------------------------------------------- C25
\* C25: whenever the Output Structurer call succeeds, the content the run
\* returns holds no "References"-style heading line (and so nothing of what
\* followed that heading in the model's output)
C25_NoReferencesHeadingInContent ==
  pc = "returned" /\ ~formatFailed =>
    FirstOfKind(result.content, "refs") = 0

\* ---------------------------------------------------------------- C26
\* the minimum the citation step of deep-research-agent.ts aims at
MinCitations == 15

\* C26: the citation list handed to the Output Structurer has at least 15
\* entries, for every number of urls (zero included) the search returned
C26_StructurerGetsFifteenCitations ==
  \A i \in CallsTo("claude_format") : Len(calls[i].citations) >= MinCitations

\* ---------------------------------------------------------------- C27
\* every marker replaced by its image under the map, all at once
SimultaneousReplace(content, citationMap) ==
  [i \in DOMAIN content |->
     IF content[i].kind = "para" /\ content[i].n \in DOMAIN citationMap
     THEN [content[i] EXCEPT !.n = citationMap[content[i].n]]
     ELSE content[i]]

\* C27: for every index map the deduplication effect builds and every
\* document, applying the map one entry at a time (a replace-all of [old]
\* by [new] per entry) gives what replacing all markers simultaneously by
\* their images gives: no marker is rewritten a second time
C27_SequentialEqualsSimultaneous ==
  ~researchSummary.null /\ Len(researchSummary.citations) > 0 =>
    localSummary.content =
      SimultaneousReplace(researchSummary.content,
                          CitationMap(researchSummary.citations,
                                      getUniqueReferences(researchSummary.citations)))

\* ---------------------------------------------------------------- C28
\* the claims handled so far
Handled == 1..Len(citationIndicesOf)

RECURSIVE MarkersEndingAt(_, _)
\* the markers of the claims from number j on that end at position p of the
\* original text, in the order the claims were handled
MarkersEndingAt(p, j) ==
  IF j > Len(citationIndicesOf) THEN <<>>
  ELSE (IF fragments[j].endIndex = p /\ Len(citationIndicesOf[j]) > 0
        THEN CitationText(citationIndicesOf[j])
        ELSE <<>>) \o MarkersEndingAt(p, j + 1)

RECURSIVE MarkedFrom(_)
\* the original text from position p on, each marker directly after the end
\* position of its claim
MarkedFrom(p) ==
  IF p > Len(originalText) THEN <<>>
  ELSE (IF p > 0 THEN <<originalText[p]>> ELSE <<>>)
         \o MarkersEndingAt(p, 1) \o MarkedFrom(p + 1)

IsLetter(ch) == ch \in {"a", "b", "c"}

\* C28: for every list of claims, in any order of positions, each marker
\* sits directly after its claim's end position as measured in the original
\* text, and deleting the markers gives back the original text
C28_MarkersAtClaimEnds ==
  enhPc \in {"loop", "returned"} =>
    /\ enhancedText = MarkedFrom(0)
    /\ SelectSeq(enhancedText, IsLetter) = originalText

\* ---------------------------------------------------------------- C29
IsDigit(ch) == ch \in {"0", "1", "2", "3", "4", "5", "6", "7", "8", "9"}

DigitValue(ch) == CHOOSE n \in 0..9 : Digit(n) = ch

RECURSIVE NumbersFrom(_, _, _, _)
\* the numbers written in str from character i on: maximal runs of digits;
\* run is the value of the run being read, open whether one is being read
NumbersFrom(str, i, run, open) ==
  IF i > Len(str)
  THEN IF open THEN {run} ELSE {}
  ELSE IF IsDigit(str[i])
       THEN NumbersFrom(str, i + 1, (IF open THEN run * 10 ELSE 0) + DigitValue(str[i]), TRUE)
       ELSE (IF open THEN {run} ELSE {}) \cup NumbersFrom(str, i + 1, 0, FALSE)

\* the numbers inserted into the text so far
NumbersInserted == NumbersFrom(enhancedText, 1, 0, FALSE)

RECURSIVE Flatten(_)
Flatten(lists) ==
  IF Len(lists) = 0 THEN <<>> ELSE lists[1] \o Flatten(Tail(lists))

\* C29: citation numbers are handed out consecutively from 1 across all
\* claims in processing order: after each claim the number of collected
\* citations equals the highest number inserted into the text, the citation
\* numbered k is the k-th entry of the list, and a claim for which no source
\* is found (or whose lookup fails) takes no number and inserts no marker
C29_NumbersConsecutiveFromOne ==
  enhPc \in {"loop", "returned"} =>
    /\ Len(allCitations) = citationCount
    /\ NumbersInserted = 1..citationCount
    /\ Flatten(citationIndicesOf) = [k \in 1..citationCount |-> k]
    /\ \A j \in Handled : \A r \in DOMAIN citationIndicesOf[j] :
         allCitations[citationIndicesOf[j][r]] = formatCitation(Sources(j, r)[r], 0)
    /\ Cardinality({i \in DOMAIN enhancedText : enhancedText[i] = "["})
         = Cardinality({j \in Handled : Len(citationIndicesOf[j]) > 0})
    /\ Len(enhancedText) =
         Len(originalText) + Len(Flatten([j \in Handled |->
                                            IF Len(citationIndicesOf[j]) > 0
                                            THEN CitationText(citationIndicesOf[j])
                                            ELSE <<>>]))

\* the call returned after a claim with two sources, one with none and one
\* with one source
C29_Witness ==
  /\ enhPc = "returned"
  /\ Len(citationIndicesOf) = 3
  /\ Len(citationIndicesOf[1]) = 2
  /\ Len(citationIndicesOf[2]) = 0
  /\ Len(citationIndicesOf[3]) = 1

====
